---- MODULE Spec2Model ----
(***************************************************************************)
(* lsst::daf::base::DateTime: one instant held as TAI nanoseconds since    *)
(* the Unix epoch, its scale conversions (TAI, UTC, TT), the process-wide  *)
(* leap second table, and the ISO8601 / calendar / Julian date forms.      *)
(*                                                                         *)
(* A C++ long long is a 64-bit value.  It is kept exactly, as three limbs  *)
(* [d, s, n] = d days + s seconds + n nanoseconds with 0 <= s < 86400 and  *)
(* 0 <= n < 10^9, so that every nanosecond count of the program is         *)
(* represented without loss.                                               *)
(*                                                                         *)
(* Not modelled: the linear drift term of the pre-1972 USNO entries (the   *)
(* tables of the model carry constant offsets only), and the rounding of   *)
(* doubles (Julian dates are kept as exact rationals).                     *)
(***************************************************************************)
EXTENDS Integers, Sequences, FiniteSets, TLC

\* ---------------------------------------------------------------- enums

\* enum DateSystem { JD = 0, MJD, EPOCH }
JD == 0
MJD == 1
EPOCH == 2
\* enum Timescale { TAI = 5, UTC, TT }
TAI == 5
UTC == 6
TT == 7

DateSystem == {JD, MJD, EPOCH}
Timescale == {TAI, UTC, TT}

\* ------------------------------------------------------ 64-bit integers

LL_NSEC_PER_SEC == 1000000000
SEC_PER_DAY == 86400

LL(d, s, n) == [d |-> d, s |-> s, n |-> n]

\* The limbs brought back to 0 <= s < 86400, 0 <= n < 10^9.
LLNorm(d, s, n) ==
    LET s1 == s + (n \div LL_NSEC_PER_SEC)
    IN  LL(d + (s1 \div SEC_PER_DAY), s1 % SEC_PER_DAY, n % LL_NSEC_PER_SEC)

LLAdd(a, b) == LLNorm(a.d + b.d, a.s + b.s, a.n + b.n)
LLSub(a, b) == LLNorm(a.d - b.d, a.s - b.s, a.n - b.n)
LLLess(a, b) ==
    \/ a.d < b.d
    \/ a.d = b.d /\ a.s < b.s
    \/ a.d = b.d /\ a.s = b.s /\ a.n < b.n
LLLeq(a, b) == ~LLLess(b, a)

LLZero == LL(0, 0, 0)
Days(k) == LL(k, 0, 0)
Secs(k) == LLNorm(0, k, 0)

\* std::numeric_limits<std::int64_t>::min(), -2^63 ns
invalid_nsecs == LL(-106752, 763, 145224192)
\* std::numeric_limits<std::int64_t>::max(), 2^63 - 1 ns
MaxLL == LL(106751, 85636, 854775807)
\* 2^64 ns
Two64 == LL(213503, 84873, 709551616)

Fits(x) == LLLeq(invalid_nsecs, x) /\ LLLeq(x, MaxLL)

\* The two's complement value of a result that left the 64-bit range.
Wrap(x) ==
    IF LLLess(MaxLL, x) THEN LLSub(x, Two64)
    ELSE IF LLLess(x, invalid_nsecs) THEN LLAdd(x, Two64)
    ELSE x

\* ------------------------------------------------------------- outcomes

\* What a call does: it returns v, or throws, or (undefined behaviour) traps.
Ok(v) == [kind |-> "ok", why |-> "", v |-> v]
DomainError(why) == [kind |-> "DomainError", why |-> why, v |-> 0]
RuntimeError == [kind |-> "RuntimeError", why |-> "invalid", v |-> 0]
FormatError == [kind |-> "FormatError", why |-> "format", v |-> 0]
ParseError == [kind |-> "ParseError", why |-> "line", v |-> 0]
\* Signed overflow is undefined: the build wraps, or traps.
Trap == [kind |-> "trap", why |-> "overflow", v |-> 0]

\* The outcomes (a sequence of them: any one may happen) of a signed 64-bit
\* addition or subtraction whose exact result is x.
Signed(x) == IF Fits(x) THEN <<Ok(x)>> ELSE <<Ok(Wrap(x)), Trap>>

\* ------------------------------------------------------ leap second table

\* TT is TAI + 32.184 s: 32184000000 ns.
TT_MINUS_TAI_NSECS == LL(0, 32, 184000000)

\* JD 2440587.5 is 1970-01-01T00:00:00: 4881175 half days.
EPOCH_IN_JD2 == 4881175

\* One line of the table text, USNO tai-utc.dat layout, by its fields:
\* the Julian date of the change in half days and TAI-UTC from then on.
\* A malformed line has ok = FALSE.
Line(jd2, offset) == [ok |-> TRUE, jd2 |-> jd2, offset |-> offset]
BadLine == [ok |-> FALSE, jd2 |-> 0, offset |-> LLZero]

\* The table entry of one line.
Leap(line) ==
    LET whenUtc == LLNorm((line.jd2 - EPOCH_IN_JD2) \div 2,
                          ((line.jd2 - EPOCH_IN_JD2) % 2) * (SEC_PER_DAY \div 2), 0)
    IN  [whenUtc |-> whenUtc,
         whenTai |-> LLAdd(whenUtc, line.offset),
         offset |-> line.offset]

RECURSIVE ParseLines(_)
ParseLines(text) ==
    IF text = <<>> THEN <<>> ELSE <<Leap(Head(text))>> \o ParseLines(Tail(text))

\* The index of the first entry later than ns (Len + 1 when there is none).
RECURSIVE FirstLaterUtc(_, _, _)
FirstLaterUtc(table, ns, i) ==
    IF i > Len(table) THEN i
    ELSE IF LLLess(ns, table[i].whenUtc) THEN i
    ELSE FirstLaterUtc(table, ns, i + 1)

\* FirstLaterTai with the comparison made inclusive.
RECURSIVE FirstLaterTai_Inclusive(_, _, _)
FirstLaterTai_Inclusive(table, ns, i) ==
    IF i > Len(table) THEN i
    ELSE IF LLLeq(ns, table[i].whenTai) THEN i
    ELSE FirstLaterTai_Inclusive(table, ns, i + 1)

RECURSIVE FirstLaterTai(_, _, _)
FirstLaterTai(table, ns, i) ==
    IF i > Len(table) THEN i
    ELSE IF LLLess(ns, table[i].whenTai) THEN i
    ELSE FirstLaterTai(table, ns, i + 1)

\* offsetForUtc: the offset of the latest entry not after the UTC instant.
offsetForUtc(table, ns) ==
    LET i == FirstLaterUtc(table, ns, 1)
    IN  IF i = 1 THEN DomainError("horizon") ELSE Ok(table[i - 1].offset)

\* offsetForTai: the same by TAI instant, each boundary taken in TAI.
offsetForTai(table, ns) ==
    LET i == FirstLaterTai(table, ns, 1)
    IN  IF i = 1 THEN DomainError("horizon") ELSE Ok(table[i - 1].offset)

utcToTai(table, ns) ==
    LET o == offsetForUtc(table, ns)
    IN  IF o.kind # "ok" THEN <<o>> ELSE Signed(LLAdd(ns, o.v))

taiToUtc(table, ns) ==
    LET o == offsetForTai(table, ns)
    IN  IF o.kind # "ok" THEN <<o>> ELSE Signed(LLSub(ns, o.v))

nsecAnyToTai(table, ns, scale) ==
    CASE scale = TAI -> <<Ok(ns)>>
      [] scale = TT -> Signed(LLSub(ns, TT_MINUS_TAI_NSECS))
      [] scale = UTC -> utcToTai(table, ns)

nsecTaiToAny(table, ns, scale) ==
    CASE scale = TAI -> <<Ok(ns)>>
      [] scale = TT -> Signed(LLAdd(ns, TT_MINUS_TAI_NSECS))
      [] scale = UTC -> taiToUtc(table, ns)

\* ------------------------------------------------------------- calendar

\* timegm's day count: days from 1970-01-01 to the civil date y-m-d.
days_from_civil(y, m, d) ==
    LET y1 == IF m <= 2 THEN y - 1 ELSE y
        era == y1 \div 400
        yoe == y1 - era * 400
        mp == IF m > 2 THEN m - 3 ELSE m + 9
        doy == (153 * mp + 2) \div 5 + d - 1
        doe == yoe * 365 + yoe \div 4 - yoe \div 100 + doy
    IN  era * 146097 + doe - 719468

\* gmtime_r's date: the civil date of a day count, <<year, month, day>>.
civil_from_days(z0) ==
    LET z == z0 + 719468
        era == z \div 146097
        doe == z - era * 146097
        yoe == (doe - doe \div 1460 + doe \div 36524 - doe \div 146096) \div 365
        doy == doe - (365 * yoe + yoe \div 4 - yoe \div 100)
        mp == (5 * doy + 2) \div 153
        d == doy - (153 * mp + 2) \div 5 + 1
        m == IF mp < 10 THEN mp + 3 ELSE mp - 9
        y == yoe + era * 400
    IN  <<IF m <= 2 THEN y + 1 ELSE y, m, d>>

\* timegm(&tm) * LL_NSEC_PER_SEC
timegm_nsecs(year, month, day, hr, min, sec) ==
    LLNorm(days_from_civil(year, month, day), hr * 3600 + min * 60 + sec, 0)

\* struct tm of a nanosecond count, rounded to negative infinity.
gmtime_r(ns) ==
    LET c == civil_from_days(ns.d)
    IN  [tm_year |-> c[1] - 1900, tm_mon |-> c[2] - 1, tm_mday |-> c[3],
         tm_hour |-> ns.s \div 3600, tm_min |-> (ns.s % 3600) \div 60,
         tm_sec |-> ns.s % 60]

\* ------------------------------------------------------------- DateTime

minYear == 1902
maxYear == 2261

DateTime(ns) == [_nsecs |-> ns]

isValid(dt) == dt._nsecs # invalid_nsecs

\* _assertValid without its test.
_assertValid_Never(dt) == <<>>

\* _assertValid: the outcome that stops an accessor, or none.
_assertValid(dt) == IF ~isValid(dt) THEN <<RuntimeError>> ELSE <<>>

\* An outcome set mapped through f where it holds a value.
Then(outs, f(_)) ==
    LET F[i \in 0..Len(outs)] ==
            IF i = 0 THEN <<>>
            ELSE F[i - 1] \o (IF outs[i].kind = "ok" THEN f(outs[i].v) ELSE <<outs[i]>>)
    IN  F[Len(outs)]

MkDateTime(ns) == <<Ok(DateTime(ns))>>

\* DateTime()
DateTime_default == <<Ok(DateTime(invalid_nsecs))>>

\* The nanosecond constructor with the scale of the input ignored.
DateTime_nsecs_AsTai(table, ns, scale) ==
    IF ns = invalid_nsecs THEN <<Ok(DateTime(invalid_nsecs))>>
    ELSE IF scale = UTC THEN Then(nsecAnyToTai(table, ns, scale), MkDateTime)
    ELSE MkDateTime(ns)

\* DateTime(long long nsecs, Timescale scale)
DateTime_nsecs(table, ns, scale) ==
    IF ns = invalid_nsecs THEN <<Ok(DateTime(invalid_nsecs))>>
    ELSE Then(nsecAnyToTai(table, ns, scale), MkDateTime)

\* The calendar constructor with the ends of the year range left out.
DateTime_fields_Exclusive(table, year, month, day, hr, min, sec, scale) ==
    IF year <= minYear \/ year >= maxYear THEN <<DomainError("year")>>
    ELSE Then(nsecAnyToTai(table, timegm_nsecs(year, month, day, hr, min, sec), scale),
              MkDateTime)

\* DateTime(int year, int month, int day, int hr, int min, int sec, Timescale)
DateTime_fields(table, year, month, day, hr, min, sec, scale) ==
    IF year < minYear \/ year > maxYear THEN <<DomainError("year")>>
    ELSE Then(nsecAnyToTai(table, timegm_nsecs(year, month, day, hr, min, sec), scale),
              MkDateTime)

\* nsecs without the horizon of the table: before the first entry the count
\* is returned as it is.
nsecs_NoHorizon(table, dt, scale) ==
    IF ~isValid(dt) THEN <<Ok(invalid_nsecs)>>
    ELSE IF scale = UTC /\ offsetForTai(table, dt._nsecs).kind # "ok" THEN <<Ok(dt._nsecs)>>
    ELSE nsecTaiToAny(table, dt._nsecs, scale)

\* nsecs with TT answered as TAI.
nsecs_TTAsTai(table, dt, scale) ==
    IF ~isValid(dt) THEN <<Ok(invalid_nsecs)>>
    ELSE nsecTaiToAny(table, dt._nsecs, IF scale = TT THEN TAI ELSE scale)

\* long long nsecs(Timescale scale) const
nsecs(table, dt, scale) ==
    IF ~isValid(dt) THEN <<Ok(invalid_nsecs)>>
    ELSE nsecTaiToAny(table, dt._nsecs, scale)

\* The accessors that assert validity first.
Guarded(dt, outs) == IF _assertValid(dt) # <<>> THEN _assertValid(dt) ELSE outs

\* struct tm gmtime(Timescale scale) const
MkTm(ns) == <<Ok(gmtime_r(ns))>>
gmtime(table, dt, scale) ==
    Guarded(dt, Then(nsecTaiToAny(table, dt._nsecs, scale), MkTm))

\* tv_sec and tv_nsec of a count: the division truncates toward zero.
TruncSec(ns) ==
    IF ns.d < 0 /\ ns.n > 0
    THEN [sec |-> LLNorm(ns.d, ns.s + 1, 0), nsec |-> ns.n - LL_NSEC_PER_SEC]
    ELSE [sec |-> LLNorm(ns.d, ns.s, 0), nsec |-> ns.n]

\* -(-a / b) for a < 0: the truncating division of a negative number.
TruncDiv(a, b) == IF a < 0 THEN -((-a) \div b) ELSE a \div b

\* struct timespec timespec(Timescale scale) const
MkTimespec(ns) == <<Ok([tv_sec |-> TruncSec(ns).sec, tv_nsec |-> TruncSec(ns).nsec])>>
timespec(table, dt, scale) ==
    Guarded(dt, Then(nsecTaiToAny(table, dt._nsecs, scale), MkTimespec))

\* struct timeval timeval(Timescale scale) const
MkTimeval(ns) ==
    <<Ok([tv_sec |-> TruncSec(ns).sec, tv_usec |-> TruncDiv(TruncSec(ns).nsec, 1000)])>>
timeval(table, dt, scale) ==
    Guarded(dt, Then(nsecTaiToAny(table, dt._nsecs, scale), MkTimeval))

\* operator== on whole seconds only.
OpEq_Seconds(a, b) == a._nsecs.d = b._nsecs.d /\ a._nsecs.s = b._nsecs.s

\* bool operator==(DateTime const& rhs) const
OpEq(a, b) == a._nsecs = b._nsecs

\* std::size_t hash_value() const noexcept: std::hash of the stored count,
\* which is the count itself.
hash_value(dt) == dt._nsecs

\* -------------------------------------------------------------- doubles

\* A double with at most two fractional bits is kept as its count of
\* quarters (the value times 4); products with 365.25 are then sixteenths.
MJD_TO_JD_Q == 9600002
EPOCH_IN_JD_Q == 9762350
JD2000_Q == 9806180
EPOCH_2000_Q == 8000
DAYS_PER_YEAR_Q == 1461

\* The Julian date, in sixteenths of a day, of a date in the given system.
JdSixteenths(date, system) ==
    CASE system = JD -> date * 4
      [] system = MJD -> (date + MJD_TO_JD_Q) * 4
      [] system = EPOCH -> JD2000_Q * 4 + (date - EPOCH_2000_Q) * DAYS_PER_YEAR_Q

\* (jd - 2440587.5) * 86400e9, exact for these dates.
JdToNsecs(jd16) ==
    LET k == jd16 - EPOCH_IN_JD_Q * 4
    IN  LLNorm(k \div 16, (k % 16) * (SEC_PER_DAY \div 16), 0)

\* DateTime(double date, DateSystem system, Timescale scale)
DateTime_double(table, date, system, scale) ==
    LET ns == JdToNsecs(JdSixteenths(date, system))
    IN  IF ~Fits(ns) THEN <<DomainError("range")>>
        ELSE Then(nsecAnyToTai(table, ns, scale), MkDateTime)

\* The scale conversion of get(), carried out on doubles: no integer overflow.
nsecTaiToAny_double(table, ns, scale) ==
    CASE scale = TAI -> <<Ok(ns)>>
      [] scale = TT -> <<Ok(LLAdd(ns, TT_MINUS_TAI_NSECS))>>
      [] scale = UTC ->
           LET o == offsetForTai(table, ns)
           IN  IF o.kind # "ok" THEN <<o>> ELSE <<Ok(LLSub(ns, o.v))>>

\* _getJd, _getMjd, _getEpoch: the double as an exact count of days in limbs;
\* an EPOCH value is 2000 + days / 365.25.
QDays(q) == LLNorm(q \div 4, (q % 4) * (SEC_PER_DAY \div 4), 0)
SystemValue(ns, system) ==
    CASE system = JD -> [system |-> JD, days |-> LLAdd(ns, QDays(EPOCH_IN_JD_Q))]
      [] system = MJD ->
           [system |-> MJD, days |-> LLAdd(ns, QDays(EPOCH_IN_JD_Q - MJD_TO_JD_Q))]
      [] system = EPOCH ->
           [system |-> EPOCH, days |-> LLAdd(ns, QDays(EPOCH_IN_JD_Q - JD2000_Q))]

\* double get(DateSystem system, Timescale scale) const
get(table, dt, system, scale) ==
    Guarded(dt, Then(nsecTaiToAny_double(table, dt._nsecs, scale),
                     LAMBDA ns : <<Ok(SystemValue(ns, system))>>))

\* ----------------------------------------------------------------- text

\* A string is the sequence of its characters.
Dg == <<"0", "1", "2", "3", "4", "5", "6", "7", "8", "9">>
Digits == {Dg[i] : i \in 1..10}
Pow10 == <<1, 10, 100, 1000, 10000, 100000, 1000000, 10000000, 100000000, 1000000000>>

\* %0<width>d
Pad(k, width) == [i \in 1..width |-> Dg[((k \div Pow10[width - i + 1]) % 10) + 1]]

\* std::string toString(Timescale scale) const
Format(ns, scale) ==
    LET tm == gmtime_r(ns)
    IN  Pad(tm.tm_year + 1900, 4) \o <<"-">> \o Pad(tm.tm_mon + 1, 2) \o <<"-">>
        \o Pad(tm.tm_mday, 2) \o <<"T">> \o Pad(tm.tm_hour, 2) \o <<":">>
        \o Pad(tm.tm_min, 2) \o <<":">> \o Pad(tm.tm_sec, 2) \o <<".">>
        \o Pad(ns.n, 9) \o (IF scale = UTC THEN <<"Z">> ELSE <<>>)

toString(table, dt, scale) ==
    Guarded(dt, Then(nsecTaiToAny(table, dt._nsecs, scale),
                     LAMBDA ns : <<Ok(Format(ns, scale))>>))

IsDigits(t, i, k) == i + k - 1 <= Len(t) /\ \A j \in i..(i + k - 1) : t[j] \in Digits
DigitOf(c) == CHOOSE v \in 0..9 : Dg[v + 1] = c
RECURSIVE Num(_, _, _)
Num(t, i, k) == IF k = 0 THEN 0 ELSE Num(t, i, k - 1) * 10 + DigitOf(t[i + k - 1])
Skip(t, i, c) == IF i <= Len(t) /\ t[i] = c THEN i + 1 ELSE i
RECURSIVE DigitsEnd(_, _)
DigitsEnd(t, i) == IF i <= Len(t) /\ t[i] \in Digits THEN DigitsEnd(t, i + 1) ELSE i

\* The match of (\d{4})-?(\d{2})-?(\d{2})T(\d{2}):?(\d{2}):?(\d{2})([.,](\d*))?
\* followed by Z when one is wanted, and by nothing else.
Iso8601Regex(t, wantZ) ==
    LET p2 == Skip(t, 5, "-")
        p3 == Skip(t, p2 + 2, "-")
        pT == p3 + 2
        p5 == pT + 1
        p6 == Skip(t, p5 + 2, ":")
        p7 == Skip(t, p6 + 2, ":")
        p8 == p7 + 2
        hasFrac == p8 <= Len(t) /\ t[p8] \in {".", ","}
        p9 == IF hasFrac THEN DigitsEnd(t, p8 + 1) ELSE p8
        places == IF hasFrac THEN p9 - p8 - 1 ELSE 0
        kept == IF places > 9 THEN 9 ELSE places
        matched ==
            /\ IsDigits(t, 1, 4) /\ IsDigits(t, p2, 2) /\ IsDigits(t, p3, 2)
            /\ pT <= Len(t) /\ t[pT] = "T"
            /\ IsDigits(t, p5, 2) /\ IsDigits(t, p6, 2) /\ IsDigits(t, p7, 2)
            /\ IF wantZ THEN p9 = Len(t) /\ t[p9] = "Z" ELSE p9 = Len(t) + 1
    IN  IF ~matched THEN [matched |-> FALSE]
        ELSE [matched |-> TRUE,
              year |-> Num(t, 1, 4), month |-> Num(t, p2, 2), day |-> Num(t, p3, 2),
              hr |-> Num(t, p5, 2), min |-> Num(t, p6, 2), sec |-> Num(t, p7, 2),
              frac |-> Num(t, p8 + 1, kept) * Pow10[9 - kept + 1]]

\* The final Z is required for UTC and prohibited for TAI or TT.
Iso8601Match(t, scale) == Iso8601Regex(t, scale = UTC)

\* The ISO8601 constructor with the final Z optional in every scale.
DateTime_iso8601_AnyZ(table, iso8601, scale) ==
    LET m == Iso8601Regex(iso8601, Len(iso8601) > 0 /\ iso8601[Len(iso8601)] = "Z")
    IN  IF ~m.matched THEN <<FormatError>>
        ELSE Then(DateTime_fields(table, m.year, m.month, m.day, m.hr, m.min, m.sec, scale),
                  LAMBDA dt : Then(Signed(LLAdd(dt._nsecs, LL(0, 0, m.frac))), MkDateTime))

\* DateTime(std::string const& iso8601, Timescale scale)
DateTime_iso8601(table, iso8601, scale) ==
    LET m == Iso8601Match(iso8601, scale)
    IN  IF ~m.matched THEN <<FormatError>>
        ELSE Then(DateTime_fields(table, m.year, m.month, m.day, m.hr, m.min, m.sec, scale),
                  LAMBDA dt : Then(Signed(LLAdd(dt._nsecs, LL(0, 0, m.frac))), MkDateTime))

\* static DateTime now(void): the clock is taken to keep UTC.
now(table, clock) == DateTime_nsecs(table, clock, UTC)

\* ---------------------------------------------------- initializeLeapSeconds

\* initializeLeapSeconds without the clearing of the table it finds.
initializeLeapSeconds_Append(table, leapString) ==
    IF \E i \in 1..Len(leapString) : ~leapString[i].ok THEN table
    ELSE table \o ParseLines(leapString)

\* static void initializeLeapSeconds(std::string const& leapString): the
\* table the call leaves, given the table it found.
initializeLeapSeconds(table, leapString) ==
    IF \E i \in 1..Len(leapString) : ~leapString[i].ok THEN table
    ELSE ParseLines(leapString)

initializeLeapSecondsOutcome(leapString) ==
    IF \E i \in 1..Len(leapString) : ~leapString[i].ok THEN ParseError ELSE Ok(Len(leapString))

\* ------------------------------------------------------------- the inputs

\* How many nanoseconds either side of each boundary the sampled instants lie.
Spread == 1

\* The compiled-in table `leapString`, cut to four of its entries:
\* 1961 JAN 1 (JD 2437300.5), 1972 JAN 1, 1972 JUL 1, 1973 JAN 1.
Offset1961 == LL(0, 1, 422818000)
leapString ==
    <<Line(4874601, Offset1961), Line(4882635, Secs(10)),
      Line(4882999, Secs(11)), Line(4883367, Secs(12))>>

\* Texts a caller hands to initializeLeapSeconds: the USNO steps of 1961
\* (the offset falls by 0.05 s on 1961 AUG 1), a table that starts in 1972,
\* the default again, and a text with a malformed line.
LeapStrings ==
    {leapString,
     <<Line(4874601, Offset1961), Line(4875025, LL(0, 1, 372818000)),
       Line(4882635, Secs(10))>>,
     <<Line(4882635, Secs(10)), Line(4882999, Secs(11))>>,
     <<Line(4882635, Secs(10)), BadLine>>}

\* 1961-01-01, 1961-08-01 and 1972-07-01 as nanoseconds since the epoch.
Horizon1961 == Days(-3287)
Step1961 == Days(-3075)
Leap1972 == Days(912)

Boundaries ==
    {Horizon1961, LLAdd(Horizon1961, Offset1961),
     Step1961, LLAdd(Step1961, LL(0, 1, 372818000)),
     Leap1972, LLAdd(Leap1972, Secs(10)), LLAdd(Leap1972, Secs(11))}

Near(b) ==
    {LLAdd(b, LL(0, 0, k)) : k \in 0..Spread} \cup {LLSub(b, LL(0, 0, k)) : k \in 1..Spread}

SampleNsecs ==
    UNION {Near(b) : b \in Boundaries}
    \cup {invalid_nsecs, LLAdd(invalid_nsecs, TT_MINUS_TAI_NSECS), LLZero, Days(10957), MaxLL}

\* Doubles, as quarters: MJD 37299, 37300, 51544; JD 2451544.5; Julian epoch
\* 1960.0 and 2000.0; and MJD 147339, past the 64-bit range.
SampleDates ==
    {<<MJD, 149196>>, <<MJD, 149200>>, <<MJD, 206176>>, <<JD, 9806178>>,
     <<EPOCH, 7840>>, <<EPOCH, 8000>>, <<MJD, 589356>>}

SampleFields ==
    {<<y, 1, 1, 0, 0, 0>> : y \in {1900, 1901, 1902, 1960, 1961, 1972, 2000, 2261, 2262}}
    \cup {<<1972, 6, 30, 23, 59, 59>>, <<2261, 12, 31, 23, 59, 59>>}

\* Texts: date and time with the separators and endings the grammar allows
\* or forbids.
Text(f, dsep, tsep, tail) ==
    Pad(f[1], 4) \o dsep \o Pad(f[2], 2) \o dsep \o Pad(f[3], 2) \o <<"T">>
    \o Pad(f[4], 2) \o tsep \o Pad(f[5], 2) \o tsep \o Pad(f[6], 2) \o tail

SampleTexts ==
    {Text(<<2000, 1, 1, 0, 0, 0>>, <<"-">>, <<":">>, tail) :
        tail \in {<<>>, <<"Z">>, <<".", "5">>, <<".", "5", "Z">>,
                  <<",", "1", "2", "3", "4", "5", "6", "7", "8", "9", "1", "Z">>,
                  <<"Z", "Z">>, <<"+">>}}
    \cup {Text(<<2000, 1, 1, 0, 0, 0>>, <<>>, <<>>, tail) : tail \in {<<>>, <<"Z">>}}
    \cup {Text(f, <<"-">>, <<":">>, tail) :
            f \in {<<1960, 12, 31, 23, 59, 59>>, <<1900, 1, 1, 0, 0, 0>>},
            tail \in {<<>>, <<"Z">>}}
    \cup {<<"2", "0", "0", "0", "-", "0", "1", "-", "0", "1", " ",
            "0", "0", ":", "0", "0", ":", "0", "0", "Z">>}

\* Readings of the system clock (UTC): 2017-01-01T00:00:00.000001 and 1970.
SampleClock == {LLAdd(Days(17167), LL(0, 0, 1000)), LLZero}

\* ---------------------------------------------------------------- state

VARIABLES
    leapSecTable,   \* the process-wide table: a sequence of Leap entries
    leapText,       \* the text the table was last built from
    obj,            \* the DateTime objects of the caller: lhs and rhs
    last,           \* the last call: what was called, with what, and what it did
    probe           \* the last two lookups in the table

vars == <<leapSecTable, leapText, obj, last, probe>>

Slots == {"lhs", "rhs"}
NoObj == [made |-> FALSE, dt |-> DateTime(invalid_nsecs), ctor |-> "", scale |-> 0]

Call(op, slot, arg, system, scale, out) ==
    [op |-> op, slot |-> slot, arg |-> arg, system |-> system, scale |-> scale, out |-> out]

Init ==
    /\ leapSecTable = ParseLines(leapString)
    /\ leapText = leapString
    /\ obj = [k \in Slots |-> NoObj]
    /\ last = Call("", "", 0, 0, 0, Ok(0))
    /\ probe = <<>>

\* A constructor call: the object exists if the constructor returned.
Construct(k, op, arg, system, scale, outs) ==
    /\ ~obj[k].made
    /\ \E i \in 1..Len(outs) : LET o == outs[i] IN
        /\ obj' = IF o.kind = "ok"
                  THEN [obj EXCEPT ![k] = [made |-> TRUE, dt |-> o.v, ctor |-> op,
                                           scale |-> scale]]
                  ELSE obj
        /\ last' = Call(op, k, arg, system, scale, o)
    /\ UNCHANGED <<leapSecTable, leapText, probe>>

NewDefault(k) == Construct(k, "DateTime", 0, 0, 0, DateTime_default)

NewFromNsecs(k) ==
    \E ns \in SampleNsecs, scale \in Timescale :
        Construct(k, "DateTime_nsecs", ns, 0, scale, DateTime_nsecs(leapSecTable, ns, scale))

NewFromDouble(k) ==
    \E d \in SampleDates, scale \in Timescale :
        Construct(k, "DateTime_double", d[2], d[1], scale,
                  DateTime_double(leapSecTable, d[2], d[1], scale))

NewFromFields(k) ==
    \E f \in SampleFields, scale \in Timescale :
        Construct(k, "DateTime_fields", f, 0, scale,
                  DateTime_fields(leapSecTable, f[1], f[2], f[3], f[4], f[5], f[6], scale))

NewFromIso8601(k) ==
    \E t \in SampleTexts, scale \in Timescale :
        Construct(k, "DateTime_iso8601", t, 0, scale,
                  DateTime_iso8601(leapSecTable, t, scale))

Now(k) ==
    \E clock \in SampleClock :
        Construct(k, "now", clock, 0, UTC, now(leapSecTable, clock))

\* An accessor call on the object lhs.
Access(op, system, scale, outs) ==
    /\ obj["lhs"].made
    /\ \E i \in 1..Len(outs) : last' = Call(op, "lhs", 0, system, scale, outs[i])
    /\ UNCHANGED <<leapSecTable, leapText, obj, probe>>

CallNsecs ==
    \E scale \in Timescale :
        Access("nsecs", 0, scale, nsecs(leapSecTable, obj["lhs"].dt, scale))

CallGet ==
    \E system \in DateSystem, scale \in Timescale :
        Access("get", system, scale, get(leapSecTable, obj["lhs"].dt, system, scale))

CallToString ==
    \E scale \in Timescale :
        Access("toString", 0, scale, toString(leapSecTable, obj["lhs"].dt, scale))

CallGmtime ==
    \E scale \in Timescale :
        Access("gmtime", 0, scale, gmtime(leapSecTable, obj["lhs"].dt, scale))

CallTimespec ==
    \E scale \in Timescale :
        Access("timespec", 0, scale, timespec(leapSecTable, obj["lhs"].dt, scale))

CallTimeval ==
    \E scale \in Timescale :
        Access("timeval", 0, scale, timeval(leapSecTable, obj["lhs"].dt, scale))

CallIsValid == Access("isValid", 0, 0, <<Ok(isValid(obj["lhs"].dt))>>)

\* DateTime(x.nsecs(scale), scale) == x, and the same once more on the result.
RoundTripOutcomes(table, x, scale) ==
    Then(nsecs(table, x, scale), LAMBDA n1 :
    Then(DateTime_nsecs(table, n1, scale), LAMBDA y :
    Then(nsecs(table, y, scale), LAMBDA n2 :
    Then(DateTime_nsecs(table, n2, scale), LAMBDA z :
        <<Ok([back |-> y, eq |-> OpEq(y, x), again |-> OpEq(z, y)])>>))))

RoundTrip ==
    \E scale \in Timescale :
        Access("roundtrip", 0, scale, RoundTripOutcomes(leapSecTable, obj["lhs"].dt, scale))

\* lhs == rhs
CallEq ==
    /\ obj["lhs"].made /\ obj["rhs"].made
    /\ last' = Call("operator==", "lhs", 0, 0, 0, Ok(OpEq(obj["lhs"].dt, obj["rhs"].dt)))
    /\ UNCHANGED <<leapSecTable, leapText, obj, probe>>

CallHash ==
    /\ obj["lhs"].made /\ obj["rhs"].made
    /\ last' = Call("hash_value", "lhs", 0, 0, 0,
                    Ok(<<hash_value(obj["lhs"].dt), hash_value(obj["rhs"].dt)>>))
    /\ UNCHANGED <<leapSecTable, leapText, obj, probe>>

InitializeLeapSeconds ==
    \E text \in LeapStrings :
        /\ leapSecTable' = initializeLeapSeconds(leapSecTable, text)
        /\ leapText' = IF initializeLeapSecondsOutcome(text).kind = "ok" THEN text ELSE leapText
        /\ last' = Call("initializeLeapSeconds", "", text, 0, 0,
                        initializeLeapSecondsOutcome(text))
        /\ probe' = <<>>
        /\ UNCHANGED obj

\* A lookup in the table; the last two are kept.
Lookup(by, ns, out) ==
    /\ probe' = (IF probe = <<>> THEN <<>> ELSE <<probe[Len(probe)]>>)
                \o <<[by |-> by, at |-> ns, out |-> out]>>
    /\ UNCHANGED <<leapSecTable, leapText, obj, last>>

LookupUtc == \E ns \in SampleNsecs : Lookup("utc", ns, offsetForUtc(leapSecTable, ns))
LookupTai == \E ns \in SampleNsecs : Lookup("tai", ns, offsetForTai(leapSecTable, ns))

\* One object, every constructor and accessor, and the table.
Next ==
    \/ NewDefault("lhs")
    \/ NewFromNsecs("lhs")
    \/ NewFromDouble("lhs")
    \/ NewFromFields("lhs")
    \/ NewFromIso8601("lhs")
    \/ Now("lhs")
    \/ CallNsecs
    \/ CallGet
    \/ CallToString
    \/ CallGmtime
    \/ CallTimespec
    \/ CallTimeval
    \/ CallIsValid
    \/ RoundTrip
    \/ InitializeLeapSeconds

Spec == Init /\ [][Next]_vars

\* Two objects, compared and hashed.
NextEq ==
    \/ \E k \in Slots : NewDefault(k)
    \/ \E k \in Slots : NewFromNsecs(k)
    \/ CallEq
    \/ CallHash

SpecEq == Init /\ [][NextEq]_vars

\* The table and its lookups.
NextLeap ==
    \/ InitializeLeapSeconds
    \/ LookupUtc
    \/ LookupTai

SpecLeap == Init /\ [][NextLeap]_vars

\* =============================================================== claims

X == obj["lhs"].dt
Made == obj["lhs"].made
XValid == X._nsecs # invalid_nsecs
Constructors ==
    {"DateTime", "DateTime_nsecs", "DateTime_double", "DateTime_fields",
     "DateTime_iso8601", "now"}
Accessors == {"get", "nsecs", "toString", "gmtime", "timespec", "timeval"}
Offset32184 == LL(0, 32, 184000000)

\* The count, in the scale of the call, that a constructor call was given.
CountGiven(c) ==
    CASE c.op \in {"DateTime_nsecs", "now"} -> c.arg
      [] c.op = "DateTime_double" -> JdToNsecs(JdSixteenths(c.arg, c.system))
      [] c.op = "DateTime_fields" ->
           LLNorm(days_from_civil(c.arg[1], c.arg[2], c.arg[3]),
                  c.arg[4] * 3600 + c.arg[5] * 60 + c.arg[6], 0)
      [] c.op = "DateTime_iso8601" ->
           LET m == Iso8601Regex(c.arg, TRUE)
           IN  LLNorm(days_from_civil(m.year, m.month, m.day),
                      m.hr * 3600 + m.min * 60 + m.sec, 0)

\* A constructor call that names an instant in UTC.
NamesUtcInstant(c) ==
    /\ c.op \in Constructors \ {"DateTime"}
    /\ c.scale = UTC
    /\ c.op = "DateTime_nsecs" => c.arg # invalid_nsecs
    /\ c.op = "DateTime_iso8601" => Iso8601Regex(c.arg, TRUE).matched

\* ---- C1
\* C1: a UTC conversion of an instant before 1961-01-01T00:00:00 UTC fails
\* with a domain error, on construction (nanoseconds, double, calendar
\* fields, ISO8601 text) and on every accessor of a valid instant; the same
\* requests in TAI or TT never fail for that reason.
C1_UtcBefore1961IsDomainError ==
    /\ (NamesUtcInstant(last) /\ LLLess(CountGiven(last), Horizon1961))
          => last.out.kind = "DomainError"
    /\ (last.op \in Accessors /\ last.scale = UTC /\ Made /\ XValid
          /\ LLLess(X._nsecs, LLAdd(Horizon1961, Offset1961)))
          => last.out.kind = "DomainError"
    /\ last.scale \in {TAI, TT}
          => ~(last.out.kind = "DomainError" /\ last.out.why = "horizon")

C1_Witness ==
    /\ last.op = "toString" /\ last.scale = UTC /\ Made /\ XValid
    /\ X._nsecs = LLAdd(Horizon1961, LL(0, 0, 1))
    /\ last.out.kind = "DomainError"

\* ---- C2
\* C2 as written: every value-producing accessor, nsecs included, fails with
\* a state error on an invalid instant.
C2_EveryAccessorThrowsOnInvalid ==
    (last.op \in Accessors /\ Made /\ ~XValid) => last.out.kind = "RuntimeError"

\* C2, amended: get, toString, gmtime, timespec and timeval fail with a state
\* error on an invalid instant, in every scale and system; nsecs returns
\* invalid_nsecs for it, in every scale.
C2_AccessorsOnInvalid ==
    /\ (last.op \in Accessors \ {"nsecs"} /\ Made /\ ~XValid)
          => last.out.kind = "RuntimeError"
    /\ (last.op = "nsecs" /\ Made /\ ~XValid)
          => last.out.kind = "ok" /\ last.out.v = invalid_nsecs

C2_Witness ==
    /\ last.op = "get" /\ last.scale = UTC /\ Made /\ ~XValid
    /\ obj["lhs"].ctor = "DateTime_nsecs"
    /\ last.out.kind = "RuntimeError"

\* ---- C3
\* An instant inside an inserted leap second: at or after UTC reached an
\* entry's date under the previous offset, and before the entry's TAI date.
InLeapSecond(table, ns) ==
    \E i \in 2..Len(table) :
        /\ LLLeq(LLAdd(table[i].whenUtc, table[i - 1].offset), ns)
        /\ LLLess(ns, table[i].whenTai)

BeforeTable(table, ns) == Len(table) = 0 \/ LLLess(ns, table[1].whenTai)

C4_InvalidOnlyFromSentinel ==
    (last.op \in Constructors /\ last.out.kind = "ok") =>
        (last.out.v._nsecs = invalid_nsecs
            <=> (last.op = "DateTime"
                 \/ (last.op = "DateTime_nsecs" /\ last.arg = invalid_nsecs)))

\* ---- C5
\* C5 as written: for every valid x, nsecs(TT) is nsecs(TAI) + 32184000000,
\* and construction from nanoseconds in TT stores the input minus that.
C5_TTOffsetAlways ==
    /\ (last.op = "nsecs" /\ last.scale = TT /\ Made /\ XValid)
          => last.out.kind = "ok" /\ last.out.v = LLAdd(X._nsecs, Offset32184)
    /\ (last.op = "DateTime_nsecs" /\ last.scale = TT)
          => last.out.kind = "ok" /\ last.out.v._nsecs = LLSub(last.arg, Offset32184)

\* C5, amended: for every valid x with x + 32184000000 within 64 bits,
\* nsecs(TT) = nsecs(TAI) + 32184000000 whatever the table, and nsecs(TAI)
\* is the stored count; construction from nanoseconds n in scale TT stores
\* n - 32184000000 when n is not invalid_nsecs and the difference fits.
C5_TTOffsetWithinRange ==
    /\ (last.op = "nsecs" /\ last.scale = TT /\ Made /\ XValid
          /\ Fits(LLAdd(X._nsecs, Offset32184)))
          => last.out.kind = "ok" /\ last.out.v = LLAdd(X._nsecs, Offset32184)
    /\ (last.op = "nsecs" /\ last.scale = TAI /\ Made /\ XValid)
          => last.out.kind = "ok" /\ last.out.v = X._nsecs
    /\ (last.op = "DateTime_nsecs" /\ last.scale = TT /\ last.arg # invalid_nsecs
          /\ Fits(LLSub(last.arg, Offset32184)))
          => last.out.kind = "ok" /\ last.out.v._nsecs = LLSub(last.arg, Offset32184)

C5_Witness ==
    /\ last.op = "nsecs" /\ last.scale = TT /\ Made /\ XValid
    /\ leapSecTable # ParseLines(leapString)
    /\ last.out.kind = "ok" /\ last.out.v = LLAdd(X._nsecs, Offset32184)

\* ---- C6
\* C6: lhs == rhs exactly when the two stored TAI counts are equal, whatever
\* scale each was constructed from, and equal instants hash alike.
C6_EqualIffSameCount ==
    /\ last.op = "operator=="
          => last.out.v = (obj["lhs"].dt._nsecs = obj["rhs"].dt._nsecs)
    /\ (last.op = "hash_value" /\ obj["lhs"].dt._nsecs = obj["rhs"].dt._nsecs)
          => last.out.v[1] = last.out.v[2]

C6_Witness ==
    /\ last.op = "operator==" /\ last.out.v
    /\ obj["lhs"].scale = UTC /\ obj["rhs"].scale = TAI
    /\ obj["lhs"].dt._nsecs # invalid_nsecs

\* ---- C7
NonDecreasing(table) ==
    \A i \in 1..(Len(table) - 1) : LLLeq(table[i].offset, table[i + 1].offset)

\* The dates of the table entries, in the scale of a lookup.
EntryDates(table, by) ==
    {IF by = "utc" THEN table[i].whenUtc ELSE table[i].whenTai : i \in 1..Len(table)}

\* Two lookups of one kind in one table, the earlier instant first: the
\* offset does not fall, and differs only across an entry's date.
Monotone(table, p, q) ==
    (p.by = q.by /\ p.out.kind = "ok" /\ q.out.kind = "ok" /\ LLLeq(p.at, q.at)) =>
        /\ LLLeq(p.out.v, q.out.v)
        /\ p.out.v # q.out.v =>
              \E e \in EntryDates(table, p.by) : LLLess(p.at, e) /\ LLLeq(e, q.at)

\* C7 as written: with the table fixed, whatever the table, the offset
\* applied is non-decreasing in the instant and changes only at an entry.
C7_OffsetMonotone ==
    Len(probe) = 2 =>
        /\ Monotone(leapSecTable, probe[1], probe[2])
        /\ Monotone(leapSecTable, probe[2], probe[1])

\* C7, amended: with the table fixed and its offsets not decreasing from one
\* entry to the next (entries without drift term), the offset applied is
\* non-decreasing in the instant and two instants get different offsets only
\* if an entry's date is after the first and not after the second, by UTC
\* and by TAI instant.
C7_OffsetMonotoneInRisingTable ==
    (Len(probe) = 2 /\ NonDecreasing(leapSecTable)) =>
        /\ Monotone(leapSecTable, probe[1], probe[2])
        /\ Monotone(leapSecTable, probe[2], probe[1])

C7_Witness ==
    /\ Len(probe) = 2 /\ NonDecreasing(leapSecTable)
    /\ probe[1].by = "tai" /\ probe[2].by = "tai"
    /\ probe[1].at = LLSub(LLAdd(Leap1972, Secs(11)), LL(0, 0, 1))
    /\ probe[2].at = LLAdd(Leap1972, Secs(11))
    /\ probe[1].out.kind = "ok" /\ probe[2].out.kind = "ok"
    /\ probe[1].out.v # probe[2].out.v

\* ---- C8
\* C8: the calendar constructor succeeds for every year in [1902, 2261],
\* subject only to the UTC horizon, and fails for every other year in every
\* scale.
C8_YearRange ==
    last.op = "DateTime_fields" =>
        IF last.arg[1] >= 1902 /\ last.arg[1] <= 2261
        THEN IF last.scale = UTC
                /\ (Len(leapSecTable) = 0
                    \/ LLLess(CountGiven(last), leapSecTable[1].whenUtc))
             THEN last.out.kind = "DomainError" /\ last.out.why = "horizon"
             ELSE last.out.kind = "ok"
        ELSE last.out.kind = "DomainError"

C8_Witness ==
    /\ last.op = "DateTime_fields" /\ last.arg[1] = 1902 /\ last.scale = TT
    /\ last.out.kind = "ok" /\ Made

\* ---- C9
EndsWithZ(t) == Len(t) > 0 /\ t[Len(t)] = "Z"

\* C9: toString(scale) ends with Z exactly when the scale is UTC, and the
\* ISO8601 constructor rejects a text with Z in TAI or TT and a text without
\* Z in UTC with a format error.
C9_ZExactlyForUtc ==
    /\ (last.op = "toString" /\ last.out.kind = "ok")
          => (EndsWithZ(last.out.v) = (last.scale = UTC))
    /\ (last.op = "DateTime_iso8601" /\ ((~EndsWithZ(last.arg)) = (last.scale = UTC)))
          => last.out.kind = "FormatError"

C9_Witness ==
    /\ last.op = "DateTime_iso8601" /\ last.scale = TAI /\ EndsWithZ(last.arg)
    /\ Iso8601Regex(last.arg, TRUE).matched
    /\ last.out.kind = "FormatError"

\* ---- C10
TableOfText(table, text) ==
    /\ Len(table) = Len(text)
    /\ \A i \in 1..Len(text) :
          /\ table[i].offset = text[i].offset
          /\ table[i].whenUtc = LLNorm((text[i].jd2 - 4881175) \div 2,
                                       ((text[i].jd2 - 4881175) % 2) * 43200, 0)

Ascending(table) ==
    \A i \in 1..(Len(table) - 1) : LLLess(table[i].whenUtc, table[i + 1].whenUtc)

C10_Step ==
    /\ TableOfText(leapSecTable', leapText')
    /\ Ascending(leapSecTable')
    /\ last'.op = "initializeLeapSeconds" =>
          /\ obj' = obj
          /\ IF last'.out.kind = "ok" THEN leapText' = last'.arg
             ELSE leapSecTable' = leapSecTable /\ leapText' = leapText
    /\ last'.op # "initializeLeapSeconds" => leapSecTable' = leapSecTable
    /\ (last'.op = "nsecs" /\ last'.scale = UTC /\ last'.out.kind = "ok"
          /\ obj'["lhs"].dt._nsecs # invalid_nsecs)
          => \E i \in 1..Len(leapSecTable') :
                LLSub(obj'["lhs"].dt._nsecs, last'.out.v) = leapSecTable'[i].offset

====
